---- MODULE Spec2Model ----
(***************************************************************************)
(* Model of the extension install / update / remove workflows of           *)
(* azure/cli/command_modules/extension/custom.py.                          *)
(*                                                                         *)
(* The extension store is a map from extension names to directories.  One  *)
(* command runs at a time (the module is single-threaded and synchronous); *)
(* a command is split into the steps at which the code calls a             *)
(* collaborator or touches the file system, so that every intermediate     *)
(* state of the store is a state of the model.  Each step that can raise   *)
(* (file copy, tree removal, download, installer) has a failing outcome.   *)
(***************************************************************************)
EXTENDS FiniteSets, Integers, Sequences, TLC

\* ---------------------------------------------------------------- bounds
MaxVersion == 2
MaxCli == 2

Versions == 1..MaxVersion

\* ------------------------------------------------------------ value sets
\* Extension names, as sequences of characters.
Names == { <<"x">>, <<"y", "-", "z">> }

\* The name part of a wheel file name (PEP 427 writes "-" as "_").
\* The empty sequence stands for a file name WHEEL_INFO_RE does not match.
NoName == << >>
WhlNames == { <<"x">>, <<"y", "_", "z">> }

\* A source: URL or local path, its suffix, and the name and version its
\* file name encodes.
Sources == [url : BOOLEAN, ext : {".whl", ".zip"},
            wname : WhlNames \cup {NoName}, ver : Versions]
NoSource == [url |-> FALSE, ext |-> "", wname |-> NoName, ver |-> 0]

\* File contents and their SHA-256 hex digests.
Contents == {1, 2}
NoChecksum == ""
Checksums == {"aa", "bb"}

\* A directory of the store: the installed version, and which parts are on
\* disk ("pkg": what the installer unpacked, "whl": the saved wheel).
NoDir == [present |-> FALSE, ver |-> 0, files |-> {}]
Dirs == [present : {TRUE}, ver : Versions, files : SUBSET {"pkg", "whl"}]

\* What a tree copy or tree removal that raised part-way can leave of d.
Remnants(d) == { [d EXCEPT !.files = f] : f \in SUBSET d.files }

\* Versions of the CLI core, and the bounds an extension's metadata can
\* declare on them; NoBound is an absent (None) bound.
CliVersions == 1..MaxCli
NoBound == 0
Metadata == [min : CliVersions \cup {NoBound}, max : CliVersions \cup {NoBound}]

\* The tuple ext_compat_with_cli returns, and the bounds the error message
\* of _validate_whl_cli_compat names.
NoCompat == [is_compatible |-> TRUE, cli_core_version |-> 0,
             min_required |-> NoBound, max_required |-> NoBound]
NoMsg == [raised |-> FALSE, host |-> 0, min |-> NoBound, max |-> NoBound]

\* Exit statuses of the installer subprocess; a negative return code is
\* the number of the signal that killed it.
PipStatuses == {0, 1, -9}

VARIABLES
    store,      \* Names -> directory        (the extensions directory)
    backup,     \* backup_dir of the running / last update_extension
    pc,         \* position of the running command, "idle" between commands
    op,         \* the command: kind, name argument, name the wheel targets
    loc,        \* local variables of the running (or last) command
    result,     \* outcome of the last command: "ok" or an error kind
    pre,        \* the store when the command started
    done        \* the effects the running command has had so far

vars == <<store, backup, pc, op, loc, result, pre, done>>

NoLoc == [source |-> NoSource, sha |-> NoChecksum, content |-> 0,
          pip_status |-> 0, cur_version |-> 0, err |-> "",
          compat |-> NoCompat, msg |-> NoMsg]

\* ------------------------------------------------- external collaborators
\* azure.cli.core.extension: the store's view of what is installed.
get_extension_path(n) == store[n]

extension_exists(n) == get_extension_path(n).present

get_extension(n) == [name |-> n, version |-> get_extension_path(n).ver]

\* ._resolve: the candidates the index may give for a request; for an
\* update, strictly newer than the installed version.
resolve_from_index(n, cur_version) ==
    { c \in [source : Sources, sha : Checksums \cup {NoChecksum}] :
          c.source.ver > cur_version }

\* azure.cli.core.extension.ext_compat_with_cli: the host version h is
\* compatible when it lies within the declared bounds, an absent bound
\* being no bound.
ext_compat_with_cli(azext_metadata, h) ==
    [is_compatible |-> /\ (azext_metadata.min = NoBound \/ azext_metadata.min <= h)
                       /\ (azext_metadata.max = NoBound \/ h <= azext_metadata.max),
     cli_core_version |-> h,
     min_required |-> azext_metadata.min,
     max_required |-> azext_metadata.max]

\* hashlib.sha256(...).hexdigest()
hexdigest(c) == IF c = 1 THEN "aa" ELSE "bb"

\* ------------------------------------------------------- pure functions
\* (variant: every expected sum is accepted)
is_valid_sha256sum_any(c, expected_sum) == TRUE

is_valid_sha256sum(c, expected_sum) == expected_sum = hexdigest(c)

\* (variant: the message names the bounds the host version is outside of)
validate_whl_cli_compat_violated(c) ==
    [raised |-> ~c.is_compatible,
     host   |-> c.cli_core_version,
     min    |-> IF c.min_required # NoBound /\ c.cli_core_version < c.min_required
                THEN c.min_required ELSE NoBound,
     max    |-> IF c.max_required # NoBound /\ c.cli_core_version > c.max_required
                THEN c.max_required ELSE NoBound]

\* _validate_whl_cli_compat: whether it raises, and the host version and the
\* bounds its message then names.
validate_whl_cli_compat(c) ==
    [raised |-> ~c.is_compatible,
     host   |-> c.cli_core_version,
     min    |-> IF c.min_required # NoBound THEN c.min_required ELSE NoBound,
     max    |-> IF c.min_required # NoBound /\ c.max_required # NoBound
                  THEN c.max_required
                ELSE IF c.min_required # NoBound THEN NoBound
                ELSE IF c.max_required # NoBound THEN c.max_required
                ELSE NoBound]

\* name.replace('_', '-')
replace(s) == [i \in DOMAIN s |-> IF s[i] = "_" THEN "-" ELSE s[i]]

\* The extension name _add_whl_ext derives from the source.
extension_name(source) ==
    IF source.wname = NoName THEN NoName ELSE replace(source.wname)

\* ------------------------------------------------------------------ Init
Init ==
    /\ store = [n \in Names |-> NoDir]
    /\ backup = NoDir
    /\ pc = "idle"
    /\ op = [kind |-> "none", name |-> NoName, target |-> NoName]
    /\ loc = NoLoc
    /\ result = "none"
    /\ pre = [n \in Names |-> NoDir]
    /\ done = {}

\* A command starts: nothing of the previous command's frame survives.
Start(kind, n, source, next) ==
    /\ pc = "idle"
    /\ pc' = next
    /\ op' = [kind |-> kind, name |-> n, target |-> NoName]
    /\ loc' = [NoLoc EXCEPT !.source = source]
    /\ result' = "none"
    /\ pre' = store
    /\ done' = {}
    /\ backup' = NoDir
    /\ UNCHANGED store

\* The command returns r to the CLI layer.  Its locals are kept as they were
\* at the return until the next command starts.
Return(r) ==
    /\ pc' = "idle"
    /\ result' = r
    /\ UNCHANGED loc

\* _add_whl_ext raises e: add_extension lets it propagate, update_extension
\* catches it (except Exception) and goes on to restore the backup.
Raise(e) ==
    IF op.kind = "update"
    THEN /\ pc' = "upd_restore"
         /\ loc' = [loc EXCEPT !.err = e]
         /\ UNCHANGED result
    ELSE Return(e)

\* As Raise(e), the locals having become l by the time e is raised.
RaiseWith(e, l) ==
    IF op.kind = "update"
    THEN /\ pc' = "upd_restore"
         /\ loc' = [l EXCEPT !.err = e]
         /\ UNCHANGED result
    ELSE /\ pc' = "idle"
         /\ result' = e
         /\ loc' = l

\* _add_whl_ext returns normally.
Finish ==
    IF op.kind = "update"
    THEN /\ pc' = "upd_rmbackup"
         /\ UNCHANGED <<loc, result>>
    ELSE Return("ok")

\* ------------------------------------------------------------ add_extension
AddByName ==
    \E n \in Names : Start("add_name", n, NoSource, "add_exists")

AddBySource ==
    \E s \in Sources : Start("add_source", NoName, s, "whl_type")

\* if extension_exists(extension_name): raise CLIError(... already exists)
AddExists ==
    /\ pc = "add_exists"
    /\ IF extension_exists(op.name)
       THEN Return("AlreadyExists")
       ELSE /\ pc' = "add_resolve"
            /\ UNCHANGED <<loc, result>>
    /\ UNCHANGED <<store, backup, op, pre, done>>

\* source, ext_sha256 = resolve_from_index(extension_name, ...)
AddResolve ==
    /\ pc = "add_resolve"
    /\ done' = done \cup {"index"}
    /\ \/ Return("NoCandidateFound")
       \/ \E c \in resolve_from_index(op.name, 0) :
            /\ pc' = "whl_type"
            /\ loc' = [loc EXCEPT !.source = c.source, !.sha = c.sha]
            /\ UNCHANGED result
    /\ UNCHANGED <<store, backup, op, pre>>

\* ------------------------------------------------------------- _add_whl_ext
\* if not source.endswith('.whl'): raise ValueError
WhlType ==
    /\ pc = "whl_type"
    /\ IF loc.source.ext # ".whl"
       THEN Raise("UnsupportedArtifactType")
       ELSE /\ pc' = "whl_name"
            /\ UNCHANGED <<loc, result>>
    /\ UNCHANGED <<store, backup, op, pre, done>>

\* extension_name = ...; if not extension_name: raise CLIError
WhlName ==
    /\ pc = "whl_name"
    /\ op' = [op EXCEPT !.target = extension_name(loc.source)]
    /\ IF extension_name(loc.source) = NoName
       THEN Raise("NameResolutionFailed")
       ELSE /\ pc' = "whl_exists"
            /\ UNCHANGED <<loc, result>>
    /\ UNCHANGED <<store, backup, pre, done>>

\* (variant: the source is fetched before the store is asked for the name)
WhlExists_late ==
    /\ pc = "whl_exists"
    /\ done' = done \cup (IF loc.source.url THEN {"tmpdir", "fetch"} ELSE {"fetch"})
    /\ IF extension_exists(op.target)
       THEN Raise("AlreadyExists")
       ELSE /\ pc' = "whl_fetch"
            /\ UNCHANGED <<loc, result>>
    /\ UNCHANGED <<store, backup, op, pre>>

\* if extension_exists(extension_name): raise CLIError
WhlExists ==
    /\ pc = "whl_exists"
    /\ IF extension_exists(op.target)
       THEN Raise("AlreadyExists")
       ELSE /\ pc' = "whl_fetch"
            /\ UNCHANGED <<loc, result>>
    /\ UNCHANGED <<store, backup, op, pre, done>>

\* (variant: the file goes to the compatibility validation with its checksum
\* not compared)
WhlFetch_unchecked ==
    /\ pc = "whl_fetch"
    /\ done' = done \cup (IF loc.source.url THEN {"tmpdir", "fetch"} ELSE {"fetch"})
    /\ \/ Raise(IF loc.source.url THEN "DownloadFailed" ELSE "FileNotFound")
       \/ \E c \in Contents :
            /\ pc' = "whl_validate"
            /\ loc' = [loc EXCEPT !.content = c]
            /\ UNCHANGED result
    /\ UNCHANGED <<store, backup, op, pre>>

\* Download to a new temporary directory, or locate the local file.
WhlFetch ==
    /\ pc = "whl_fetch"
    /\ done' = done \cup (IF loc.source.url THEN {"tmpdir", "fetch"} ELSE {"fetch"})
    /\ \/ Raise(IF loc.source.url THEN "DownloadFailed" ELSE "FileNotFound")
       \/ \E c \in Contents :
            /\ pc' = "whl_checksum"
            /\ loc' = [loc EXCEPT !.content = c]
            /\ UNCHANGED result
    /\ UNCHANGED <<store, backup, op, pre>>

\* if ext_sha256: valid_checksum, _ = is_valid_sha256sum(ext_file, ext_sha256)
WhlChecksum ==
    /\ pc = "whl_checksum"
    /\ IF loc.sha # NoChecksum /\ ~is_valid_sha256sum(loc.content, loc.sha)
       THEN Raise("ChecksumMismatch")
       ELSE /\ pc' = "whl_validate"
            /\ UNCHANGED <<loc, result>>
    /\ UNCHANGED <<store, backup, op, pre, done>>

\* (variant: the installer has already run into the target directory when
\* the validation raises)
WhlValidate_late ==
    /\ pc = "whl_validate"
    /\ \/ /\ done' = done \cup {"extract"}
          /\ Raise("InvalidArtifact")
          /\ store' = [store EXCEPT ![op.target] =
                          [present |-> TRUE, ver |-> loc.source.ver, files |-> {"pkg"}]]
       \/ /\ done' = done \cup {"extract", "rmtmp"}
          /\ pc' = "whl_pip"
          /\ UNCHANGED <<store, loc, result>>
    /\ UNCHANGED <<backup, op, pre>>

\* _validate_whl_extension(ext_file).  The archive is extracted into a new
\* temporary directory ("extract") and its metadata read; an exception of
\* lines 79-82 (unreadable archive, unreadable metadata) leaves the function
\* there, and is filed under InvalidArtifact whatever its Python type.
\* Otherwise the directory is removed ("rmtmp") and the declared
\* bounds are compared with the version of the CLI core.
WhlValidate ==
    /\ pc = "whl_validate"
    /\ \/ /\ done' = done \cup {"extract"}
          /\ Raise("InvalidArtifact")
       \/ /\ done' = done \cup {"extract", "rmtmp"}
          /\ \E azext_metadata \in Metadata, h \in CliVersions :
               LET c == ext_compat_with_cli(azext_metadata, h)
                   m == validate_whl_cli_compat(c)
               IN  IF m.raised
                   THEN RaiseWith("IncompatibleVersion",
                                  [loc EXCEPT !.compat = c, !.msg = m])
                   ELSE /\ pc' = "whl_pip"
                        /\ UNCHANGED <<loc, result>>
    /\ UNCHANGED <<store, backup, op, pre>>

\* What the installer can leave under the target directory when it does not
\* exit with status 0: nothing, or part of what it was unpacking.
Partial(ver) ==
    {NoDir} \cup Remnants([present |-> TRUE, ver |-> ver, files |-> {"pkg"}])

\* pip_status_code = _run_pip(['install', '--target', extension_path, ...])
WhlRunPip ==
    /\ pc = "whl_pip"
    /\ done' = done \cup {"pip", "mutate"}
    /\ \/ /\ loc' = [loc EXCEPT !.pip_status = 0]
          /\ store' = [store EXCEPT ![op.target] =
                          [present |-> TRUE, ver |-> loc.source.ver, files |-> {"pkg"}]]
       \/ \E st \in PipStatuses \ {0} :
            /\ loc' = [loc EXCEPT !.pip_status = st]
            /\ \E d \in Partial(loc.source.ver) :
                 store' = [store EXCEPT ![op.target] = d]
    /\ pc' = "whl_pipcheck"
    /\ UNCHANGED <<backup, op, result, pre>>

\* if pip_status_code > 0: shutil.rmtree(extension_path, ignore_errors=True)
WhlPipCheck ==
    /\ pc = "whl_pipcheck"
    /\ IF loc.pip_status > 0
       THEN /\ store' = [store EXCEPT ![op.target] = NoDir]
            /\ Raise("InstallationFailed")
       ELSE /\ pc' = "whl_copy"
            /\ UNCHANGED <<store, loc, result>>
    /\ UNCHANGED <<backup, op, pre, done>>

\* shutil.copyfile(ext_file, os.path.join(extension_path, whl_filename))
WhlCopy ==
    /\ pc = "whl_copy"
    /\ \/ /\ store[op.target].present
          /\ store' = [store EXCEPT ![op.target].files = @ \cup {"whl"}]
          /\ Finish
       \/ /\ UNCHANGED store
          /\ Raise("OSError")
    /\ UNCHANGED <<backup, op, pre, done>>

\* ---------------------------------------------------------- remove_extension
RemoveStart ==
    \E n \in Names : Start("remove", n, NoSource, "rm")

\* (variant: the tree removal is skipped)
Remove_keep ==
    /\ pc = "rm"
    /\ IF ~extension_exists(op.name)
       THEN Return("NotInstalled")
       ELSE Return("ok")
    /\ UNCHANGED <<store, backup, op, pre, done>>

\* (variant: the tree removal is given the extensions directory itself)
Remove_all ==
    /\ pc = "rm"
    /\ IF ~extension_exists(op.name)
       THEN /\ Return("NotInstalled")
            /\ UNCHANGED <<store, done>>
       ELSE /\ done' = done \cup {"mutate"}
            /\ store' = [n \in Names |-> NoDir]
            /\ Return("ok")
    /\ UNCHANGED <<backup, op, pre>>

\* get_extension(extension_name); shutil.rmtree(get_extension_path(...))
Remove ==
    /\ pc = "rm"
    /\ IF ~extension_exists(op.name)
       THEN /\ Return("NotInstalled")
            /\ UNCHANGED <<store, done>>
       ELSE /\ done' = done \cup {"mutate"}
            /\ \/ /\ store' = [store EXCEPT ![op.name] = NoDir]
                  /\ Return("ok")
               \/ /\ \E d \in Remnants(store[op.name]) :
                       store' = [store EXCEPT ![op.name] = d]
                  /\ Return("OSError")
    /\ UNCHANGED <<backup, op, pre>>

\* ---------------------------------------------------------- update_extension
UpdateStart ==
    \E n \in Names : Start("update", n, NoSource, "upd_get")

\* (variant: the index is asked before the installed extension is looked up)
UpdGet_late ==
    /\ pc = "upd_get"
    /\ done' = done \cup {"index"}
    /\ IF ~extension_exists(op.name)
       THEN Return("NotInstalled")
       ELSE /\ pc' = "upd_resolve"
            /\ loc' = [loc EXCEPT !.cur_version = get_extension(op.name).version]
            /\ UNCHANGED result
    /\ UNCHANGED <<store, backup, op, pre>>

\* ext = get_extension(extension_name); cur_version = ext.get_version()
UpdGet ==
    /\ pc = "upd_get"
    /\ IF ~extension_exists(op.name)
       THEN Return("NotInstalled")
       ELSE /\ pc' = "upd_resolve"
            /\ loc' = [loc EXCEPT !.cur_version = get_extension(op.name).version]
            /\ UNCHANGED result
    /\ UNCHANGED <<store, backup, op, pre, done>>

\* (variant: the backup is taken and the directory removed before the index
\* is asked)
UpdResolve_late ==
    /\ pc = "upd_resolve"
    /\ \/ /\ done' = done \cup {"index", "backup", "mutate"}
          /\ backup' = store[op.name]
          /\ store' = [store EXCEPT ![op.name] = NoDir]
          /\ Return("NoUpdateAvailable")
       \/ /\ done' = done \cup {"index"}
          /\ \E c \in resolve_from_index(op.name, loc.cur_version) :
               /\ pc' = "upd_backup"
               /\ loc' = [loc EXCEPT !.source = c.source, !.sha = c.sha]
               /\ UNCHANGED result
          /\ UNCHANGED <<store, backup>>
    /\ UNCHANGED <<op, pre>>

\* download_url, ext_sha256 = resolve_from_index(name, cur_version=...)
UpdResolve ==
    /\ pc = "upd_resolve"
    /\ done' = done \cup {"index"}
    /\ \/ Return("NoUpdateAvailable")
       \/ \E c \in resolve_from_index(op.name, loc.cur_version) :
            /\ pc' = "upd_backup"
            /\ loc' = [loc EXCEPT !.source = c.source, !.sha = c.sha]
            /\ UNCHANGED result
    /\ UNCHANGED <<store, backup, op, pre>>

\* shutil.copytree(extension_path, backup_dir)
UpdBackup ==
    /\ pc = "upd_backup"
    /\ done' = done \cup {"backup"}
    /\ \/ /\ backup' = store[op.name]
          /\ pc' = "upd_remove"
          /\ UNCHANGED <<loc, result>>
       \/ /\ backup' \in {NoDir} \cup Remnants(store[op.name])
          /\ Return("OSError")
    /\ UNCHANGED <<store, op, pre>>

\* shutil.rmtree(extension_path)
UpdRemove ==
    /\ pc = "upd_remove"
    /\ done' = done \cup {"mutate"}
    /\ \/ /\ store' = [store EXCEPT ![op.name] = NoDir]
          /\ pc' = "whl_type"
          /\ UNCHANGED <<loc, result>>
       \/ /\ \E d \in Remnants(store[op.name]) :
               store' = [store EXCEPT ![op.name] = d]
          /\ Return("OSError")
    /\ UNCHANGED <<backup, op, pre>>

\* shutil.rmtree(backup_dir), inside the try block
UpdRmBackup ==
    /\ pc = "upd_rmbackup"
    /\ \/ /\ backup' = NoDir
          /\ Return("ok")
       \/ /\ backup' \in Remnants(backup)
          /\ pc' = "upd_restore"
          /\ loc' = [loc EXCEPT !.err = "OSError"]
          /\ UNCHANGED result
    /\ UNCHANGED <<store, op, pre, done>>

\* (variant: a restore copy that raises is swallowed and the rollback is
\* reported all the same)
UpdRestore_swallow ==
    /\ pc = "upd_restore"
    /\ done' = done \cup {"restore"}
    /\ \/ /\ ~store[op.name].present
          /\ store' = [store EXCEPT ![op.name] = backup]
       \/ /\ IF store[op.name].present
             THEN UNCHANGED store
             ELSE \E d \in {NoDir} \cup Remnants(backup) :
                     store' = [store EXCEPT ![op.name] = d]
    /\ Return("UpdateFailed")
    /\ UNCHANGED <<backup, op, pre>>

\* except Exception: shutil.copytree(backup_dir, extension_path); raise CLIError
\* copytree raises when the destination already exists.
UpdRestore ==
    /\ pc = "upd_restore"
    /\ done' = done \cup {"restore"}
    /\ \/ /\ ~store[op.name].present
          /\ store' = [store EXCEPT ![op.name] = backup]
          /\ Return("UpdateFailed")
       \/ /\ IF store[op.name].present
             THEN UNCHANGED store
             ELSE \E d \in {NoDir} \cup Remnants(backup) :
                     store' = [store EXCEPT ![op.name] = d]
          /\ Return("OSError")
    /\ UNCHANGED <<backup, op, pre>>

\* ------------------------------------------------------------------- Next
Next ==
    \/ AddByName
    \/ AddBySource
    \/ AddExists
    \/ AddResolve
    \/ WhlType
    \/ WhlName
    \/ WhlExists
    \/ WhlFetch
    \/ WhlChecksum
    \/ WhlValidate
    \/ WhlRunPip
    \/ WhlPipCheck
    \/ WhlCopy
    \/ RemoveStart
    \/ Remove
    \/ UpdateStart
    \/ UpdGet
    \/ UpdResolve
    \/ UpdBackup
    \/ UpdRemove
    \/ UpdRmBackup
    \/ UpdRestore

Spec == Init /\ [][Next]_vars

TypeOK ==
    /\ store \in [Names -> Dirs \cup {NoDir}]
    /\ backup \in Dirs \cup {NoDir}
    /\ op.kind \in {"none", "add_name", "add_source", "update", "remove"}
    /\ done \subseteq {"index", "tmpdir", "fetch", "extract", "rmtmp", "pip", "mutate",
                       "backup", "restore"}

\* ------------------------------------------------------- claim vocabulary
AddKinds == {"add_name", "add_source"}

\* A command has returned to the CLI layer.
Returned == pc = "idle" /\ result # "none"

\* The name an add attempt is about: the requested name for add by name,
\* the name derived from the source for add by direct source.
AddName == IF op.kind = "add_name" THEN op.name ELSE extension_name(loc.source)

\* update_extension of a name that was installed when it started.
UpdateOfInstalled == op.kind = "update" /\ pre[op.name].present

\* The restore copy of line 223 ran and raised.
RestoreFailed == "restore" \in done /\ result # "UpdateFailed"

\* Resolution and validation failures of the error taxonomy.
ResolutionErrors == {"UnsupportedArtifactType", "NameResolutionFailed",
                     "NoCandidateFound", "NoUpdateAvailable"}
ValidationErrors == {"ChecksumMismatch", "InvalidArtifact", "IncompatibleVersion"}

\* The error _add_whl_ext raised inside update_extension, "" if none.
InstallError == IF op.kind = "update" THEN loc.err ELSE ""

\* --------------------------------------------------------------------- C1
\* C1: when update_extension of an installed name n at version v returns,
\* either a newer version of n is installed and the backup is gone, or the
\* directory of n is identical to what it was before the update; the only
\* exception is a failed restore copy.
C1_UpdateAtomic ==
    (Returned /\ UpdateOfInstalled /\ ~RestoreFailed) =>
        \/ /\ store[op.name].present
           /\ store[op.name].ver > pre[op.name].ver
           /\ "pkg" \in store[op.name].files
           /\ ~backup.present
        \/ store[op.name] = pre[op.name]

\* --------------------------------------------------------------------- C2
\* C2: after an add attempt on a name n that was not installed fails, with
\* whatever error and at whatever step, exists(n) is false.
C2_FailedAddNotExists ==
    (Returned /\ op.kind \in AddKinds /\ result # "ok"
        /\ AddName # NoName /\ ~pre[AddName].present) =>
        ~extension_exists(AddName)

\* --------------------------------------------------------------------- C3
\* C3: a fresh install of a name that had no directory in the store, failing
\* at any step after the existence check, leaves no directory for the name.
C3_FailedInstallNoTrace ==
    (Returned /\ op.kind \in AddKinds /\ result \notin {"ok", "AlreadyExists"}
        /\ op.target # NoName) =>
        store[op.target] = NoDir

\* --------------------------------------------------------------------- C4
\* C4: when update_extension has returned after a rollback whose restore
\* copy succeeded (UpdateFailed), or after a successful update, the backup
\* directory is no longer on disk.
C4_BackupOnlyAfterFailedRestore ==
    (Returned /\ op.kind = "update" /\ result \in {"ok", "UpdateFailed"}) =>
        ~backup.present

\* --------------------------------------------------------------------- C5
\* C5: after a successful add, exists(n) holds and get(n) reports the name n
\* and the version of the installed artifact, n being the requested name
\* (add by name) or the name derived from the source (add by source).
C5_AddedIsInstalled ==
    (Returned /\ op.kind \in AddKinds /\ result = "ok") =>
        /\ AddName # NoName
        /\ extension_exists(AddName)
        /\ get_extension(AddName) = [name |-> AddName, version |-> loc.source.ver]

\* --------------------------------------------------------------------- C6
\* C6 (as stated): in add and in update, when a resolution or validation
\* failure is raised, the command has not mutated the store.
C6_NoMutationBeforeFailure ==
    /\ (Returned /\ op.kind \in AddKinds \cup {"update"}
          /\ result \in ResolutionErrors \cup ValidationErrors) =>
            ("mutate" \notin done /\ store = pre)
    /\ (pc = "upd_restore"
          /\ InstallError \in ResolutionErrors \cup ValidationErrors) =>
            "mutate" \notin done

\* C6 (amended): in add, a resolution or validation failure propagates with
\* the store never written; in update this holds of the no-candidate failure
\* (NoUpdateAvailable) only.
C6_AddFailsBeforeMutation ==
    (Returned /\ \/ op.kind \in AddKinds
                    /\ result \in ResolutionErrors \cup ValidationErrors
                 \/ op.kind = "update" /\ result = "NoUpdateAvailable") =>
        ("mutate" \notin done /\ store = pre)

C6_Witness ==
    /\ Returned
    /\ op.kind \in AddKinds
    /\ result \in ValidationErrors
    /\ \E n \in Names : store[n].present

\* --------------------------------------------------------------------- C7
\* C7: update_extension of an installed name for which the index has no
\* newer candidate fails with NoUpdateAvailable; up to and at that point
\* the store is what it was, nothing was removed and no backup was made.
C7_NoUpdateLeavesInstalled ==
    /\ (op.kind = "update" /\ pc \in {"upd_get", "upd_resolve"}) =>
          (store = pre /\ backup = NoDir /\ done \subseteq {"index"})
    /\ (Returned /\ op.kind = "update" /\ result = "NoUpdateAvailable") =>
          /\ pre[op.name].present
          /\ store = pre
          /\ backup = NoDir
          /\ done = {"index"}

C7_Witness ==
    /\ Returned
    /\ op.kind = "update"
    /\ result = "NoUpdateAvailable"
    /\ store[op.name].present
    /\ "whl" \in store[op.name].files

\* --------------------------------------------------------------------- C8
\* C8: with an expected checksum d, _add_whl_ext gets past the integrity
\* check exactly when the SHA-256 digest of the file equals d; otherwise it
\* fails with ChecksumMismatch, with the archive not extracted, the
\* installer not run and no directory for the extension name.
ChecksumFailed ==
    \/ Returned /\ op.kind \in AddKinds /\ result = "ChecksumMismatch"
    \/ pc = "upd_restore" /\ InstallError = "ChecksumMismatch"

PastChecksum ==
    \/ pc \in {"whl_validate", "whl_pip", "whl_pipcheck", "whl_copy", "upd_rmbackup"}
    \/ "extract" \in done

C8_ChecksumGate ==
    /\ (PastChecksum /\ loc.sha # NoChecksum) => hexdigest(loc.content) = loc.sha
    /\ ChecksumFailed =>
          /\ loc.sha # NoChecksum
          /\ hexdigest(loc.content) # loc.sha
          /\ done \cap {"extract", "pip"} = {}
          /\ ~store[op.target].present

C8_Witness ==
    /\ Returned
    /\ op.kind = "add_name"
    /\ result = "ChecksumMismatch"
    /\ loc.sha \in Checksums

C8_WitnessPass ==
    /\ Returned
    /\ op.kind = "add_name"
    /\ result = "ok"
    /\ loc.sha \in Checksums

C9_WitnessAbsent ==
    /\ Returned
    /\ op.kind = "remove"
    /\ result = "NotInstalled"

\* -------------------------------------------------------------------- C10
\* C10: only exit status 0 of the installer continues to the provenance
\* copy; on any non-zero status the destination directory is deleted and
\* the install fails with InstallationFailed.
C10_NonZeroExitFails ==
    /\ pc = "whl_copy" => loc.pip_status = 0
    /\ (Returned /\ op.kind \in AddKinds /\ "pip" \in done /\ loc.pip_status # 0) =>
          (result = "InstallationFailed" /\ ~store[op.target].present)

\* -------------------------------------------------------------------- C11
\* C11: update_extension raises UpdateFailed only when the restore copy has
\* completed: the directory of n is then the copy of the backup, at the
\* version v the update started from.  A restore copy that does not put the
\* backup back surfaces as another error than UpdateFailed.
C11_UpdateFailedAfterRestore ==
    /\ [](Returned /\ op.kind = "update" /\ result = "UpdateFailed" =>
            /\ "restore" \in done
            /\ store[op.name].present
            /\ store[op.name] = backup
            /\ get_extension(op.name).version = loc.cur_version
            /\ loc.cur_version = pre[op.name].ver)
    /\ [][(pc = "upd_restore" /\ pc' = "idle"
             /\ (store[op.name].present \/ store'[op.name] # backup))
          => result' \notin {"UpdateFailed", "ok"}]_vars

C11_Witness ==
    /\ Returned
    /\ op.kind = "update"
    /\ result = "UpdateFailed"
    /\ loc.err = "InstallationFailed"
    /\ store[op.name] = pre[op.name]

\* -------------------------------------------------------------------- C12
\* C12: once _validate_whl_extension has returned or raised, on whatever
\* outcome, the temporary directory it extracted the archive into has been
\* removed.
C12_ExtractDirRemoved ==
    ("extract" \in done /\ pc # "whl_validate") => "rmtmp" \in done

\* -------------------------------------------------------------------- C13
\* C13: in a fresh install the checksum is compared before the archive is
\* extracted for the compatibility validation, and the installer runs only
\* once both have passed; up to the installer, and after any validator
\* failure, there is and has been no directory for the extension name.
C13_ValidateBeforeInstall ==
    op.kind \in AddKinds =>
        /\ pc = "whl_checksum" => done \cap {"extract", "pip", "mutate"} = {}
        /\ pc = "whl_validate" => done \cap {"pip", "mutate"} = {}
        /\ "extract" \in done =>
              (loc.sha = NoChecksum \/ is_valid_sha256sum(loc.content, loc.sha))
        /\ "pip" \in done =>
              /\ {"extract", "rmtmp"} \subseteq done
              /\ loc.sha = NoChecksum \/ is_valid_sha256sum(loc.content, loc.sha)
              /\ result \notin ValidationErrors
        /\ pc \in {"whl_fetch", "whl_checksum", "whl_validate", "whl_pip"} =>
              (~store[op.target].present /\ "mutate" \notin done)
        /\ (Returned /\ result \in ValidationErrors) =>
              /\ done \cap {"pip", "mutate"} = {}
              /\ ~store[op.target].present
              /\ store = pre

C13_Witness ==
    /\ Returned
    /\ op.kind \in AddKinds
    /\ result = "IncompatibleVersion"
    /\ ~store[op.target].present

\* -------------------------------------------------------------------- C14
\* C14: in every intermediate state of an update_extension of an installed
\* name n in which n is absent from the store, the backup is a complete copy
\* of the old directory of n.
C14_AbsentHasBackup ==
    (UpdateOfInstalled /\ pc # "idle" /\ ~store[op.name].present)
        => backup = pre[op.name]

\* The ordering the claim starts from: the directory of n is untouched
\* until the backup copy has completed, and is removed with the complete
\* backup in place.
C14_RemovalAfterBackup ==
    /\ [](UpdateOfInstalled /\ "mutate" \notin done => store = pre)
    /\ [][(op.kind = "update" /\ pc = "upd_remove"
             /\ store'[op.name] # store[op.name])
          => backup = pre[op.name]]_vars

\* The same states, for a wheel whose file name encodes n.
C14_AbsentHasBackupSameName ==
    (UpdateOfInstalled /\ pc # "idle" /\ ~store[op.name].present
        /\ op.target \in {NoName, op.name})
        => backup = pre[op.name]

\* -------------------------------------------------------------------- C15
\* C15: add fails with AlreadyExists before any other effect.  By name, with
\* the requested name in the store: before the index is asked.  By direct
\* source, with the derived name in the store: before any download,
\* temporary directory, validation or installer run.  The store is left as
\* it was.
C15_ExistsCheckFirst ==
    /\ (op.kind = "add_name" /\ pre[op.name].present) =>
          /\ done = {}
          /\ store = pre
          /\ pc \in {"add_exists", "idle"}
          /\ Returned => result = "AlreadyExists"
    /\ (op.kind = "add_source" /\ loc.source.ext = ".whl"
          /\ extension_name(loc.source) # NoName
          /\ pre[extension_name(loc.source)].present) =>
          /\ done = {}
          /\ store = pre
          /\ pc \in {"whl_type", "whl_name", "whl_exists", "idle"}
          /\ Returned => result = "AlreadyExists"
    /\ (Returned /\ op.kind \in AddKinds /\ result = "AlreadyExists") =>
          /\ store = pre
          /\ done \subseteq {"index"}
          /\ "index" \in done => (op.kind = "add_name" /\ ~pre[op.name].present)

C15_Witness ==
    /\ Returned
    /\ op.kind = "add_source"
    /\ result = "AlreadyExists"
    /\ loc.source.url
    /\ store[op.target].present

\* -------------------------------------------------------------------- C16
\* C16: update_extension of a name that is not installed fails with
\* NotInstalled, the index not asked, no backup made and the store as it
\* was.
C16_UpdateNotInstalled ==
    (op.kind = "update" /\ ~pre[op.name].present) =>
        /\ pc \in {"upd_get", "idle"}
        /\ done = {}
        /\ backup = NoDir
        /\ store = pre
        /\ Returned => result = "NotInstalled"

C16_Witness ==
    /\ Returned
    /\ op.kind = "update"
    /\ result = "NotInstalled"
    /\ ~store[op.name].present
    /\ \E m \in Names : store[m].present

\* -------------------------------------------------------------------- C17
\* The validation of the running (or last) command raised IncompatibleVersion.
Incompatible == loc.msg.raised

HostBelowMin ==
    /\ loc.compat.min_required # NoBound
    /\ loc.compat.cli_core_version < loc.compat.min_required

HostAboveMax ==
    /\ loc.compat.max_required # NoBound
    /\ loc.compat.cli_core_version > loc.compat.max_required

\* C17 (as stated): the error carries the host version and names exactly the
\* bounds the host version violates: min when it is below min, max when it
\* is above max.
C17_ReportsViolatedBounds ==
    Incompatible =>
        /\ loc.msg.host = loc.compat.cli_core_version
        /\ loc.msg.min = (IF HostBelowMin THEN loc.compat.min_required ELSE NoBound)
        /\ loc.msg.max = (IF HostAboveMax THEN loc.compat.max_required ELSE NoBound)

\* C17 (amended): the error is raised with the host version outside the
\* declared bounds, carries the host version and names the bounds the
\* extension declares, both when both are declared; the violated bound is
\* always among them.
C17_ReportsDeclaredBounds ==
    Incompatible =>
        /\ HostBelowMin \/ HostAboveMax
        /\ IF op.kind = "update"
           THEN loc.err = "IncompatibleVersion"
           ELSE result = "IncompatibleVersion"
        /\ loc.msg.host = loc.compat.cli_core_version
        /\ loc.msg.min = loc.compat.min_required
        /\ loc.msg.max = loc.compat.max_required
        /\ HostBelowMin => loc.msg.min # NoBound
        /\ HostAboveMax => loc.msg.max # NoBound

C17_Witness ==
    /\ Incompatible
    /\ HostBelowMin
    /\ ~HostAboveMax
    /\ loc.compat.max_required # NoBound
    /\ loc.msg.max = loc.compat.max_required

\* -------------------------------------------------------------------- C18
\* The name the command is about, and whether the wheel it works with (if it
\* has one yet) encodes that name in its file name.
CommandName == IF op.kind = "add_source" THEN extension_name(loc.source) ELSE op.name

WheelEncodesName == extension_name(loc.source) \in {NoName, CommandName}

\* C18: an add, update or remove about a name n, with a wheel whose file
\* name encodes n, leaves the directory of every other name m as it was, at
\* every step and on every outcome.
C18_OtherNamesUntouched ==
    (op.kind # "none" /\ WheelEncodesName) =>
        \A m \in Names \ {CommandName} : store[m] = pre[m]

C18_Witness ==
    /\ Returned
    /\ op.kind = "update"
    /\ result = "ok"
    /\ extension_name(loc.source) = op.name
    /\ store[op.name] # pre[op.name]
    /\ \E m \in Names \ {op.name} : store[m].present /\ store[m] = pre[m]
====
